---- MODULE Spec2Model ----
(***************************************************************************)
(* A model of the puzzle platform: the two puzzle variants (SudokuPuzzle,  *)
(* WordLadderPuzzle), the solver functions and the Controller with its     *)
(* history tree (_ControllerTree).                                         *)
(*                                                                         *)
(* Python values are modelled as follows.  A str is the sequence of its    *)
(* characters (one-character TLA+ strings), None is the record None, an    *)
(* object is a record of its attributes, a list or tuple is a sequence.    *)
(* A raised exception is the record [exc |-> <its class name>].            *)
(***************************************************************************)
EXTENDS Integers, Sequences, FiniteSets, TLC

VARIABLES
    words,      \* WordLadderPuzzle._words: the lines of wordsEn.txt of the start word's length
    puzzle,     \* Controller._puzzle
    tree,       \* the _ControllerTree objects, in creation order; tree[1] is Controller._tree
    cur,        \* Controller._current_tree, an index into tree
    out,        \* what the last Controller.act call returned: [msg, end], or the exception it let
                \* through; NoOutput when the last step was none
    ret,        \* the last solver call: its name, argument(s) and return value (for
                \* hint_by_breadth with its @rtype, str)
    pc,         \* where solve_in_breadth stands: "idle", "while" (line 192) or "for" (line 194)
    hint,       \* solve_in_breadth's parameter hint
    root,       \* solve_in_breadth's parameter puzzle
    queue,      \* solve_in_breadth's local queue
    acc,        \* solve_in_breadth's local list used_words, shared with the states it enqueued
    pending     \* the part of solve_in_breadth's local extensions the for loop has not visited

vars == <<words, puzzle, tree, cur, out, ret, pc, hint, root, queue, acc, pending>>

----------------------------------------------------------------------------
(* Bounds of the model. *)

\* The number of words of Dictionary that wordsEn.txt holds.
NumWords == 6
\* The largest number of _ControllerTree objects a session creates.
MaxNodes == 3
\* The largest number of _ControllerTree objects a session of Sudoku creates: two
\* cells filled in one order, and then in the other.
MaxGridNodes == 5
\* The largest depth limit n handed to hint_by_depth.
MaxLimit == 3

----------------------------------------------------------------------------
(* Python built-ins. *)

None == [none |-> TRUE]

Raise(e) == [exc |-> e]

\* whether a record is a raised exception
Raised(v) == "exc" \in DOMAIN v

\* what a call that can raise and otherwise returns a list returns
Returned(v) == [val |-> v]

Range(s) == {s[i] : i \in 1..Len(s)}

\* x in lst
In(x, lst) == \E i \in 1..Len(lst) : lst[i] = x

\* lst.index(x), for x in lst
Index(lst, x) == CHOOSE i \in 1..Len(lst) : lst[i] = x /\ \A j \in 1..(i - 1) : lst[j] # x

\* the characters the program's strings are made of, in code point order
ASCII == <<"\n", " ", "!", "(", ")", ",", "-", "0", "1", "2", "3", "4", "5", "6", "7",
           "8", "9", ":", ">", "A", "B", "C", "D", "E", "F", "G", "H", "I", "J", "K",
           "L", "M", "N", "O", "P", "Q", "R", "S", "T", "U", "V", "W", "X", "Y", "Z",
           "a", "b", "c", "d", "e", "f", "g", "h", "i", "j", "k", "l", "m", "n", "o",
           "p", "q", "r", "s", "t", "u", "v", "w", "x", "y", "z", "|">>

OrdTable == [c \in {ASCII[i] : i \in 1..Len(ASCII)} |-> CHOOSE i \in 1..Len(ASCII) : ASCII[i] = c]

\* ord(c), up to a monotone renumbering
Ord(c) == OrdTable[c]

RECURSIVE StrLess(_, _)
\* a < b on str: lexicographic by code point, a proper prefix first
StrLess(a, b) ==
    IF b = <<>> THEN FALSE
    ELSE IF a = <<>> THEN TRUE
    ELSE IF Head(a) # Head(b) THEN Ord(Head(a)) < Ord(Head(b))
    ELSE StrLess(Tail(a), Tail(b))

RECURSIVE Insert(_, _)
Insert(w, sorted) ==
    IF sorted = <<>> THEN <<w>>
    ELSE IF StrLess(w, Head(sorted)) THEN <<w>> \o sorted
    ELSE <<Head(sorted)>> \o Insert(w, Tail(sorted))

RECURSIVE Sort(_)
\* list.sort() on a list of str (stable: an element goes after its equals)
Sort(lst) ==
    IF lst = <<>> THEN <<>>
    ELSE Insert(lst[Len(lst)], Sort(SubSeq(lst, 1, Len(lst) - 1)))

\* s[:i] + s[i+1:] for 0 <= i < len(s)
DropAt(s, i) == SubSeq(s, 1, i) \o SubSeq(s, i + 2, Len(s))

----------------------------------------------------------------------------
(* word_ladder_puzzle.py *)

\* WordLadderPuzzle.__init__.  Every instance reads the same file, so _words is
\* the variable words.  _tried_words is a reference: "own" is the instance's own
\* list, which nothing ever appends to; "acc" is the list used_words of the
\* solve_in_breadth call that handed it over with add_tried_words.
WordLadderPuzzle(start, target, used_words) ==
    [type |-> "WordLadderPuzzle", start |-> start, target |-> target,
     used_words |-> used_words \o <<start>>, tried_words |-> "own"]

\* the list self._tried_words refers to
TriedWords(p) == IF p.tried_words = "acc" THEN acc ELSE <<>>

ArrowStr == <<" ", "-", ">", " ">>

ChainHeadStr == <<"w", "o", "r", "d", " ", "c", "h", "a", "i", "n", ":", " ", "\n">>

TargetStr == <<"\n", "t", "a", "r", "g", "e", "t", " ", "w", "o", "r", "d", ":", " ">>

RECURSIVE JoinArrow(_)
\* the loop of __str__: word + ' -> ' for each word
JoinArrow(ws) == IF ws = <<>> THEN <<>> ELSE Head(ws) \o ArrowStr \o JoinArrow(Tail(ws))

\* WordLadderPuzzle.__str__
WordLadder_str(p) ==
    ChainHeadStr \o JoinArrow(SubSeq(p.used_words, 1, Len(p.used_words) - 1))
        \o p.used_words[Len(p.used_words)] \o TargetStr \o p.target

\* a mutant of is_solved: the first letters alone are compared
SolvedByFirstLetter(p) == Head(p.start) = Head(p.target)

\* WordLadderPuzzle.is_solved
WordLadder_is_solved(p) == p.start = p.target

\* a mutant of the inner loop of _possible_words: word[:i] == start[:i] is the test
MatchesBefore(word, start) ==
    LET F[i \in 0..Len(start)] ==
            IF i = 0 THEN <<>>
            ELSE F[i - 1] \o (IF SubSeq(word, 1, i - 1) = SubSeq(start, 1, i - 1)
                              THEN <<word>> ELSE <<>>)
    IN  F[Len(start)]

\* the inner loop of _possible_words: word once for every i that matches
Matches(word, start) ==
    LET F[i \in 0..Len(start)] ==
            IF i = 0 THEN <<>>
            ELSE F[i - 1] \o (IF DropAt(word, i - 1) = DropAt(start, i - 1) THEN <<word>> ELSE <<>>)
    IN  F[Len(start)]

\* a mutant of _possible_words: the words of the ladder are not excluded
PossibleWordsIgnoringUsed(p) ==
    LET F[k \in 0..Len(words)] ==
            IF k = 0 THEN <<>>
            ELSE F[k - 1] \o (IF ~In(words[k], TriedWords(p))
                              THEN Matches(words[k], p.start) ELSE <<>>)
    IN  Sort(F[Len(words)])

\* WordLadderPuzzle._possible_words
PossibleWords(p) ==
    LET F[k \in 0..Len(words)] ==
            IF k = 0 THEN <<>>
            ELSE F[k - 1] \o (IF ~In(words[k], p.used_words \o TriedWords(p))
                              THEN Matches(words[k], p.start) ELSE <<>>)
    IN  Sort(F[Len(words)])

\* a mutant of _extend: the words of the ladder are not handed on
ExtendForgetting(p, word) == WordLadderPuzzle(word, p.target, <<>>)

\* WordLadderPuzzle._extend
WordLadder_extend(p, word) == WordLadderPuzzle(word, p.target, p.used_words)

\* WordLadderPuzzle.extensions
WordLadder_extensions(p) ==
    LET new_words == PossibleWords(p)
    IN  [k \in 1..Len(new_words) |-> WordLadder_extend(p, new_words[k])]

\* WordLadderPuzzle.move
WordLadder_move(p, move) ==
    IF ~In(move, PossibleWords(p)) THEN Raise("ValueError") ELSE WordLadder_extend(p, move)

\* WordLadderPuzzle.generate_strings
WordLadder_generate_strings(p, new_puzzle) == new_puzzle.start

\* a mutant of add_tried_words: the puzzle keeps its own empty list
KeepOwnTriedWords(p) == p

\* WordLadderPuzzle.add_tried_words, called with solve_in_breadth's used_words
AddTriedWords(p) == [p EXCEPT !.tried_words = "acc"]

----------------------------------------------------------------------------
(* sudoku_puzzle.py.  A cell, '' or one letter, is a TLA+ string; _grid is the   *)
(* sequence of its rows; row and column indices count from 0 as in the source.  *)

CHARS == <<"A", "B", "C", "D", "E", "F", "G", "H", "I", "J", "K", "L", "M",
           "N", "O", "P", "Q", "R", "S", "T", "U", "V", "W", "X", "Y", "Z">>

DIGITS == <<"0", "1", "2", "3", "4", "5", "6", "7", "8", "9">>

\* int(sqrt(n))
ISqrt(n) == CHOOSE m \in 0..n : m * m <= n /\ (m + 1) * (m + 1) > n

RECURSIVE Str(_)
\* str(k) for an int k >= 0
Str(k) == IF k < 10 THEN <<DIGITS[k + 1]>> ELSE Str(k \div 10) \o <<DIGITS[(k % 10) + 1]>>

\* whether int(c) returns for a one-character str c (it raises ValueError otherwise)
IsDigit(c) == In(c, DIGITS)

\* int(c) for a digit c
IntOf(c) == Index(DIGITS, c) - 1

RECURSIVE RStrip(_)
\* s.rstrip()
RStrip(s) ==
    IF s # <<>> /\ s[Len(s)] \in {" ", "\n"} THEN RStrip(SubSeq(s, 1, Len(s) - 1)) ELSE s

\* c * k for a one-character str c
Repeat(c, k) == [i \in 1..k |-> c]

\* sorted(items) for a list of cells
Sorted(items) ==
    LET s == Sort([k \in 1..Len(items) |-> IF items[k] = "" THEN <<>> ELSE <<items[k]>>])
    IN  [k \in 1..Len(s) |-> IF s[k] = <<>> THEN "" ELSE s[k][1]]

\* SudokuPuzzle.__init__
SudokuPuzzle(grid) == [type |-> "SudokuPuzzle", n |-> Len(grid), grid |-> grid]

\* self._grid[i][j]
Cell(p, i, j) == p.grid[i + 1][j + 1]

\* SudokuPuzzle.__str__
Sudoku_str(p) ==
    LET n == p.n
        m == ISqrt(n)
        Bar(k) == IF (k + 1) % m = 0 /\ k + 1 # n THEN <<"|">> ELSE <<>>
        Cols[c \in 0..n] ==
            IF c = 0 THEN <<" ", " ">> ELSE Cols[c - 1] \o Str((c - 1) % 10) \o Bar(c - 1)
        Rule == <<" ">> \o Repeat("-", n + m) \o <<"\n">>
        Cells(i) ==
            LET F[j \in 0..n] ==
                    IF j = 0 THEN <<>>
                    ELSE F[j - 1] \o <<IF Cell(p, i, j - 1) = "" THEN " " ELSE Cell(p, i, j - 1)>>
                             \o Bar(j - 1)
            IN  F[n]
        Rows[i \in 0..n] ==
            IF i = 0 THEN Cols[n] \o <<"\n">> \o Rule
            ELSE RStrip(Rows[i - 1] \o Str((i - 1) % 10) \o <<"|">> \o Cells(i - 1)) \o <<"\n">>
                     \o (IF i % m = 0 /\ i # n THEN Rule ELSE <<>>)
    IN  Rows[n]

\* a mutant of the subsquare check of is_solved: the subsquares are not looked at
SubsquaresUnchecked(p) == TRUE

\* is_solved, "Check all subsquares"
SubsquaresSolved(p) ==
    LET m == ISqrt(p.n)
        Items(x, y) == [k \in 1..(m * m) |-> Cell(p, x + ((k - 1) \div m), y + ((k - 1) % m))]
    IN  \A bx \in 0..(m - 1) : \A by \in 0..(m - 1) :
            Sorted(Items(bx * m, by * m)) = SubSeq(CHARS, 1, p.n)

\* SudokuPuzzle.is_solved
Sudoku_is_solved(p) ==
    LET n == p.n
        all == SubSeq(CHARS, 1, n)
        Col(i) == [k \in 1..n |-> Cell(p, k - 1, i)]
    IN  /\ \A i \in 1..n : ~In("", p.grid[i])
        /\ \A i \in 1..n : Sorted(p.grid[i]) = all
        /\ \A i \in 0..(n - 1) : Sorted(Col(i)) = all
        /\ SubsquaresSolved(p)

\* SudokuPuzzle._find_subsquare: row and col are bound only when a range holds the index
Sudoku_find_subsquare(p, row_index, col_index) ==
    LET m == ISqrt(p.n)
        starts == {r \in 0..(p.n - 1) : r % m = 0}
        rs == {r \in starts : row_index \in r..(r + m - 1)}
        cs == {c \in starts : col_index \in c..(c + m - 1)}
    IN  IF rs = {} \/ cs = {} THEN Raise("UnboundLocalError")
        ELSE [row |-> CHOOSE r \in rs : \A q \in rs : r <= q,
              col |-> CHOOSE c \in cs : \A q \in cs : c <= q, m |-> m]

RECURSIVE RemoveAll(_, _)
\* for letter in delete_letters: possible_letters.remove(letter)
RemoveAll(possible_letters, delete_letters) ==
    IF delete_letters = <<>> THEN Returned(possible_letters)
    ELSE IF ~In(Head(delete_letters), possible_letters) THEN Raise("ValueError")
    ELSE LET k == Index(possible_letters, Head(delete_letters))
         IN  RemoveAll(SubSeq(possible_letters, 1, k - 1)
                           \o SubSeq(possible_letters, k + 1, Len(possible_letters)),
                       Tail(delete_letters))

\* the letters _possible_letters collects in delete_letters, given the subsquare
DeleteLetters(p, row_index, col_index, sq) ==
    LET n == p.n
        InCol(letter) ==
            LET F[i \in 0..n] ==
                    IF i = 0 THEN <<>>
                    ELSE F[i - 1] \o (IF letter = Cell(p, i - 1, col_index) THEN <<letter>> ELSE <<>>)
            IN  F[n]
        InSub(letter, seen) ==
            LET F[k \in 0..(sq.m * sq.m)] ==
                    IF k = 0 THEN seen
                    ELSE LET prev == F[k - 1]
                         IN  IF letter = Cell(p, sq.row + ((k - 1) \div sq.m), sq.col + ((k - 1) % sq.m))
                                    /\ ~In(letter, prev)
                             THEN prev \o <<letter>>
                             ELSE prev
            IN  F[sq.m * sq.m]
        D[l \in 0..n] ==
            IF l = 0 THEN <<>>
            ELSE IF In(CHARS[l], p.grid[row_index + 1]) THEN D[l - 1] \o <<CHARS[l]>>
            ELSE InSub(CHARS[l], D[l - 1] \o InCol(CHARS[l]))
    IN  D[n]

\* a mutant of _possible_letters: the subsquare is not looked at
PossibleLettersIgnoringSubsquare(p, row_index, col_index) ==
    LET sq == Sudoku_find_subsquare(p, row_index, col_index)
    IN  IF Raised(sq) THEN sq
        ELSE RemoveAll(SubSeq(CHARS, 1, p.n),
                       DeleteLetters(p, row_index, col_index, [sq EXCEPT !.m = 0]))

\* SudokuPuzzle._possible_letters
PossibleLetters(p, row_index, col_index) ==
    LET sq == Sudoku_find_subsquare(p, row_index, col_index)
    IN  IF Raised(sq) THEN sq
        ELSE RemoveAll(SubSeq(CHARS, 1, p.n), DeleteLetters(p, row_index, col_index, sq))

\* SudokuPuzzle._extend
Sudoku_extend(p, letter, row_index, col_index) ==
    SudokuPuzzle([p.grid EXCEPT ![row_index + 1][col_index + 1] = letter])

\* SudokuPuzzle.extensions.  On a grid that holds a letter twice in the column of
\* its first empty cell _possible_letters raises; no state of the model is one.
Sudoku_extensions(p) ==
    LET rows == {i \in 0..(p.n - 1) : In("", p.grid[i + 1])}
    IN  IF rows = {} THEN <<>>
        ELSE LET row_index == CHOOSE i \in rows : \A q \in rows : i <= q
                 col_index == Index(p.grid[row_index + 1], "") - 1
                 letters == PossibleLetters(p, row_index, col_index).val
             IN  [k \in 1..Len(letters) |-> Sudoku_extend(p, letters[k], row_index, col_index)]

\* a mutant of line 305 of move: every letter is taken
AnyLetterPossible(letter, possible_letters) == TRUE

\* line 305 of move: letter in possible_letters
LetterPossible(letter, possible_letters) == In(letter, possible_letters)

\* SudokuPuzzle.move, on the str move
Sudoku_move(p, move) ==
    IF Len(move) < 2 THEN Raise("IndexError")
    ELSE IF ~IsDigit(move[2]) THEN Raise("ValueError")
    ELSE IF Len(move) < 5 THEN Raise("IndexError")
    ELSE IF ~IsDigit(move[5]) THEN Raise("ValueError")
    ELSE LET row_index == IntOf(move[2])
             col_index == IntOf(move[5])
             letter == move[Len(move)]
             possible_letters == PossibleLetters(p, row_index, col_index)
         IN  IF Raised(possible_letters) THEN possible_letters
             ELSE IF row_index \notin 0..(p.n - 1) \/ col_index \notin 0..(p.n - 1)
                  THEN Raise("ValueError")
             ELSE IF ~LetterPossible(letter, possible_letters.val) THEN Raise("ValueError")
             ELSE IF Cell(p, row_index, col_index) # "" THEN Raise("ValueError")
             ELSE Sudoku_extend(p, letter, row_index, col_index)

\* '(' + str(row_index) + ', ' + str(col_index) + ') -> ' + char
MoveStr(row_index, col_index, char) ==
    <<"(">> \o Str(row_index) \o <<",", " ">> \o Str(col_index) \o <<")", " ", "-", ">", " ", char>>

\* SudokuPuzzle.generate_strings: the break leaves the inner loop only, so the
\* last row that differs and its first column that differs are reported.  It is
\* called with an extension of self, which differs from it.
Sudoku_generate_strings(p, new_puzzle) ==
    LET Differ(i, j) == Cell(p, i, j) # Cell(new_puzzle, i, j)
        rows == {i \in 0..(p.n - 1) : \E j \in 0..(p.n - 1) : Differ(i, j)}
        row_index == CHOOSE i \in rows : \A q \in rows : q <= i
        col_index == CHOOSE j \in 0..(p.n - 1) : Differ(row_index, j) /\ \A q \in 0..(j - 1) : ~Differ(row_index, q)
    IN  MoveStr(row_index, col_index, Cell(new_puzzle, row_index, col_index))

----------------------------------------------------------------------------
(* The Puzzle interface: a call goes to the method of the object's class. *)

is_solved(p) ==
    IF p.type = "SudokuPuzzle" THEN Sudoku_is_solved(p) ELSE WordLadder_is_solved(p)

extensions(p) ==
    IF p.type = "SudokuPuzzle" THEN Sudoku_extensions(p) ELSE WordLadder_extensions(p)

move(p, text) ==
    IF p.type = "SudokuPuzzle" THEN Sudoku_move(p, text) ELSE WordLadder_move(p, text)

generate_strings(p, new_puzzle) ==
    IF p.type = "SudokuPuzzle" THEN Sudoku_generate_strings(p, new_puzzle)
    ELSE WordLadder_generate_strings(p, new_puzzle)

\* str(p)
ToStr(p) == IF p.type = "SudokuPuzzle" THEN Sudoku_str(p) ELSE WordLadder_str(p)


----------------------------------------------------------------------------
(* solver.py *)

AlreadySolved ==
    <<"A", "l", "r", "e", "a", "d", "y", " ", "a", "t", " ", "a", " ",
      "s", "o", "l", "u", "t", "i", "o", "n", "!">>

NoExtensions ==
    <<"N", "o", " ", "p", "o", "s", "s", "i", "b", "l", "e", " ",
      "e", "x", "t", "e", "n", "s", "i", "o", "n", "s", "!">>

RECURSIVE solve_depth_first_only(_)
\* a mutant of solve_depth: the result of the first extension is returned,
\* None or not
solve_depth_first_only(p) ==
    LET exts == extensions(p)
    IN  IF is_solved(p) THEN p
        ELSE IF exts = <<>> THEN None
        ELSE solve_depth_first_only(exts[1])

RECURSIVE solve_depth_last(_)
\* a mutant of solve_depth: the loop goes on after a success, and the last one
\* is returned
solve_depth_last(p) ==
    LET exts == extensions(p)
        F[k \in 0..Len(exts)] ==
            IF k = 0 THEN None
            ELSE LET state == solve_depth_last(exts[k])
                 IN  IF state # None THEN state ELSE F[k - 1]
    IN  IF is_solved(p) THEN p ELSE F[Len(exts)]

RECURSIVE solve_depth(_)
\* solve_depth; an object is true, None is false
solve_depth(p) ==
    LET exts == extensions(p)
        F[k \in 0..Len(exts)] ==
            IF k = 0 THEN None
            ELSE LET state == F[k - 1]
                 IN  IF state # None THEN state ELSE solve_depth(exts[k])
    IN  IF is_solved(p) THEN p ELSE F[Len(exts)]

RECURSIVE solve_complete_last(_)
\* a mutant of solve_complete: the solutions of an extension take the place of
\* those found before, instead of being added to them
solve_complete_last(p) ==
    LET exts == extensions(p)
        F[k \in 0..Len(exts)] ==
            IF k = 0 THEN <<>>
            ELSE LET found == solve_complete_last(exts[k])
                 IN  IF found # <<>> THEN found ELSE F[k - 1]
    IN  IF is_solved(p) THEN <<p>> ELSE F[Len(exts)]

RECURSIVE solve_complete(_)
\* solve_complete
solve_complete(p) ==
    LET exts == extensions(p)
        F[k \in 0..Len(exts)] ==
            IF k = 0 THEN <<>>
            ELSE LET found == solve_complete(exts[k])
                 IN  F[k - 1] \o (IF found # <<>> THEN found ELSE <<>>)
    IN  IF is_solved(p) THEN <<p>> ELSE F[Len(exts)]

\* what solve_in_depth and hint_by_depth are followed by here: deep is the largest
\* number of moves from the puzzle at which a state was examined
Probe(sol, val, deep) == [sol |-> sol, val |-> val, deep |-> deep]

\* the probe of an extension, seen from the puzzle extended
Below(r, val, deep) == Probe(r.sol, val, IF r.deep + 1 > deep THEN r.deep + 1 ELSE deep)

RECURSIVE solve_in_depth(_, _)
RECURSIVE SolveInDepthFor(_, _, _)
\* the for loop of solve_in_depth from the k-th extension on
SolveInDepthFor(exts, n, deep) ==
    IF exts = <<>> THEN Probe(FALSE, None, deep)
    ELSE LET sol == Below(solve_in_depth(Head(exts), n - 1), None, deep)
         IN  IF sol.sol THEN sol ELSE SolveInDepthFor(Tail(exts), n, sol.deep)

\* solve_in_depth: sol is what it returns
solve_in_depth(p, n) ==
    IF is_solved(p) THEN Probe(TRUE, None, 0)
    ELSE IF n = 0 THEN Probe(FALSE, None, 0)
    ELSE SolveInDepthFor(extensions(p), n, 0)

RECURSIVE HintByDepthFor(_, _, _, _)
\* the for loop of hint_by_depth
HintByDepthFor(p, exts, n, deep) ==
    IF exts = <<>> THEN Probe(FALSE, NoExtensions, deep)
    ELSE LET sol == Below(solve_in_depth(Head(exts), n - 1), generate_strings(p, Head(exts)), deep)
         IN  IF sol.sol THEN sol ELSE HintByDepthFor(p, Tail(exts), n, sol.deep)

\* hint_by_depth: val is what it returns
hint_by_depth(p, n) ==
    IF is_solved(p) THEN Probe(TRUE, AlreadySolved, 0)
    ELSE HintByDepthFor(p, extensions(p), n, 0)

----------------------------------------------------------------------------
(* controller.py: _ControllerTree.  An object is its index in tree; 0 is None. *)

\* a mutant of _ControllerTree.__init__: the move is not kept
ControllerTreeWithoutMove(p, user_input) == [puzzle |-> p, user_input |-> None, subtrees |-> <<>>]

\* _ControllerTree.__init__; _user_input is None or the str, as [str |-> move]
ControllerTree(p, user_input) == [puzzle |-> p, user_input |-> user_input, subtrees |-> <<>>]

\* a mutant of in_subtree: the whole tree is searched, not the subtrees of self
in_subtree_anywhere(self, puzzle_state) ==
    LET hits == {k \in 1..Len(tree) : ToStr(tree[k].puzzle) = ToStr(puzzle_state)}
    IN  IF hits = {} THEN 0 ELSE CHOOSE k \in hits : \A q \in hits : k <= q

\* a mutant of add_subtree: the new subtree takes the place of the others
add_subtree_replacing(subtrees, subtree) == <<subtree>>

\* _ControllerTree.add_subtree, on the list self._subtrees
add_subtree(subtrees, subtree) == Append(subtrees, subtree)

\* a mutant of in_subtree: the puzzles are compared as objects, and a new one equals none
in_subtree_by_identity(self, puzzle_state) == 0

\* _ControllerTree.in_subtree
in_subtree(self, puzzle_state) ==
    LET subs == tree[self].subtrees
        hits == {k \in 1..Len(subs) : ToStr(tree[subs[k]].puzzle) = ToStr(puzzle_state)}
    IN  IF hits = {} THEN 0 ELSE subs[CHOOSE k \in hits : \A q \in hits : k <= q]

\* a mutant of find_parent: the subtrees of family_tree are not searched
find_parent_among_children(self, family_tree) ==
    IF tree[self].user_input = None THEN 0
    ELSE IF In(self, tree[family_tree].subtrees) THEN family_tree
    ELSE 0

RECURSIVE find_parent(_, _)
\* _ControllerTree.find_parent; the pair it returns is the tree and its _puzzle
find_parent(self, family_tree) ==
    LET subs == tree[family_tree].subtrees
        F[k \in 0..Len(subs)] ==
            IF k = 0 THEN 0
            ELSE LET prev == F[k - 1]
                 IN  IF prev # 0 THEN prev ELSE find_parent(self, subs[k])
    IN  IF tree[self].user_input = None THEN 0
        ELSE IF In(self, subs) THEN family_tree
        ELSE F[Len(subs)]

\* _ControllerTree.return_subtrees
return_subtrees(self) ==
    LET subs == tree[self].subtrees
    IN  [puzzle |-> [k \in 1..Len(subs) |-> tree[subs[k]].puzzle],
         moves |-> [k \in 1..Len(subs) |-> tree[subs[k]].user_input]]

----------------------------------------------------------------------------
(* controller.py: Controller.  act returns (message, end); the message is    *)
(* [text |-> a literal of the source, arg |-> the str added to it].          *)

Returns(text, arg, end) == [msg |-> [text |-> text, arg |-> arg], end |-> end]

NoCall == [fn |-> "none"]

NoOutput == Returns("", <<>>, FALSE)

\* the view goes on asking for actions until act returns end or lets an exception through
Running == ~Raised(out) /\ ~out.end

\* the hint_by_depth default of n
DefaultLimit == 100

\* Controller.state
state == ToStr(puzzle)

SearchIdle == UNCHANGED <<pc, hint, root, queue, acc, pending>>

\* the number of nodes a session of the puzzle's game stops adding nodes at
NodeBound(p) == IF p.type = "SudokuPuzzle" THEN MaxGridNodes ELSE MaxNodes

\* Controller.act on a move: _act_move, and the except clause of act
ActMove(action) ==
    /\ Running /\ pc = "idle"
    /\ LET new == move(puzzle, action)
       IN  IF Raised(new)
           THEN /\ out' = IF new.exc = "ValueError"
                          THEN Returns("Sorry, that is not a valid move. Please try again.", <<>>, FALSE)
                          ELSE new
                /\ UNCHANGED <<puzzle, tree, cur>>
           ELSE LET found == in_subtree(cur, new)
                IN  /\ puzzle' = new
                    /\ IF found # 0
                       THEN cur' = found /\ UNCHANGED tree
                       ELSE /\ Len(tree) < NodeBound(puzzle)
                            /\ tree' = Append([tree EXCEPT ![cur].subtrees = add_subtree(@, Len(tree) + 1)],
                                              ControllerTree(new, [str |-> action]))
                            /\ cur' = Len(tree) + 1
                    /\ out' = IF is_solved(new)
                              THEN Returns("Congratulations, you solved it!", <<>>, TRUE)
                              ELSE Returns("", ToStr(new), FALSE)
    /\ ret' = NoCall
    /\ UNCHANGED words /\ SearchIdle

\* Controller.act(':UNDO'): _act_undo
ActUndo ==
    /\ Running /\ pc = "idle"
    /\ LET previous_state_tree == find_parent(cur, 1)
       IN  IF previous_state_tree # 0
           THEN /\ cur' = previous_state_tree
                /\ puzzle' = tree[previous_state_tree].puzzle
                /\ out' = Returns("", ToStr(tree[previous_state_tree].puzzle), FALSE)
           ELSE /\ out' = Returns("You have not made any moves.", <<>>, FALSE)
                /\ UNCHANGED <<cur, puzzle>>
    /\ ret' = NoCall
    /\ UNCHANGED <<words, tree>> /\ SearchIdle

\* Controller.act(':ATTEMPTS'): _act_attempts
ActAttempts ==
    /\ Running /\ pc = "idle"
    /\ out' = IF Len(return_subtrees(cur).puzzle) = 0
              THEN Returns("You have never reached this state before.", <<>>, FALSE)
              ELSE Returns("", <<>>, FALSE)
    /\ ret' = NoCall
    /\ UNCHANGED <<words, puzzle, tree, cur>> /\ SearchIdle

\* Controller.act(':DISPLAY')
ActDisplay ==
    /\ Running /\ pc = "idle"
    /\ out' = Returns("", state, FALSE)
    /\ ret' = NoCall
    /\ UNCHANGED <<words, puzzle, tree, cur>> /\ SearchIdle

\* Controller.act('exit')
ActExit ==
    /\ Running /\ pc = "idle"
    /\ out' = Returns("", <<>>, TRUE)
    /\ ret' = NoCall
    /\ UNCHANGED <<words, puzzle, tree, cur>> /\ SearchIdle

RECURSIVE Concat(_)
\* the loop of _act_solve_all: str(solution) + '\n' for each solution
Concat(solutions) ==
    IF solutions = <<>> THEN <<>>
    ELSE ToStr(Head(solutions)) \o <<"\n">> \o Concat(Tail(solutions))

\* Controller.act(':SOLVE-ALL'): _act_solve_all
ActSolveAll ==
    /\ Running /\ pc = "idle"
    /\ LET solutions == solve_complete(puzzle)
       IN  /\ ret' = [fn |-> "solve_complete", arg |-> puzzle, val |-> solutions]
           /\ out' = IF Concat(solutions) # <<>> THEN Returns("", Concat(solutions), TRUE)
                     ELSE Returns("There are no solutions.", <<>>, TRUE)
    /\ UNCHANGED <<words, puzzle, tree, cur>> /\ SearchIdle

\* Controller.act(':SOLVE') on a SudokuPuzzle: _act_solve, solve, solve_depth
ActSolveDepth ==
    /\ Running /\ pc = "idle"
    /\ puzzle.type = "SudokuPuzzle"
    /\ LET solution == solve_depth(puzzle)
       IN  /\ ret' = [fn |-> "solve", arg |-> puzzle, val |-> solution]
           /\ out' = IF solution # None THEN Returns("", ToStr(solution), TRUE)
                     ELSE Returns("There are no solutions.", <<>>, TRUE)
    /\ UNCHANGED <<words, puzzle, tree, cur>> /\ SearchIdle

\* Controller.act(':HINT') on a SudokuPuzzle: _act_hint, hint_by_depth with the default n
ActHintDepth ==
    /\ Running /\ pc = "idle"
    /\ puzzle.type = "SudokuPuzzle"
    /\ LET h == hint_by_depth(puzzle, DefaultLimit)
       IN  /\ ret' = [fn |-> "hint_by_depth", arg |-> puzzle, n |-> DefaultLimit,
                      val |-> h.val, probed |-> h.deep]
           /\ out' = Returns("Try entering: ", h.val, FALSE)
    /\ UNCHANGED <<words, puzzle, tree, cur>> /\ SearchIdle

\* hint_by_depth(puzzle, n) called on the current state with a limit of the caller's
CallHintByDepth(n) ==
    /\ Running /\ pc = "idle"
    /\ LET h == hint_by_depth(puzzle, n)
       IN  ret' = [fn |-> "hint_by_depth", arg |-> puzzle, n |-> n,
                   val |-> h.val, probed |-> h.deep]
    /\ out' = NoOutput
    /\ UNCHANGED <<words, puzzle, tree, cur>> /\ SearchIdle

----------------------------------------------------------------------------
(* solver.py: solve_in_breadth, a step at a time, with its callers             *)
(* hint_by_breadth (from _act_hint) and solve_breadth (from solve, _act_solve). *)

\* a mutant of lines 198-200: the last word of the chain is the hint
LastWord(chain, start_word) == chain[Len(chain)]

\* lines 198-200: chain[chain.index(puzzle.start_word()) + 1]
NextWord(chain, start_word) == chain[Index(chain, start_word) + 1]

\* a mutant of line 190: the puzzle is given the list of tried words as its
\* extensions are
AppendedTried(p) == AddTriedWords(p)

\* line 190, queue.append(puzzle): the object of the caller goes on the queue as
\* it is
Appended(p) == p

\* solve_in_breadth is entered: lines 189-191; puzzle, the parameter and the head
\* of the queue are one object
Enter(h) ==
    /\ pc' = "while"
    /\ hint' = h
    /\ puzzle' = Appended(puzzle)
    /\ root' = Appended(puzzle)
    /\ queue' = <<Appended(puzzle)>>
    /\ acc' = <<>>
    /\ pending' = <<>>

\* Controller.act(':HINT') on a WordLadderPuzzle: _act_hint, hint_by_breadth
ActHintBreadth ==
    /\ Running /\ pc = "idle"
    /\ puzzle.type = "WordLadderPuzzle"
    /\ IF is_solved(puzzle)
       THEN /\ ret' = [fn |-> "hint_by_breadth", arg |-> puzzle, rtype |-> "str",
                       val |-> AlreadySolved]
            /\ out' = Returns("Try entering: ", AlreadySolved, FALSE)
            /\ SearchIdle
            /\ UNCHANGED puzzle
       ELSE /\ Enter(TRUE)
            /\ ret' = NoCall
            /\ out' = NoOutput
    /\ UNCHANGED <<words, tree, cur>>

\* Controller.act(':SOLVE') on a WordLadderPuzzle: _act_solve, solve, solve_breadth
ActSolveBreadth ==
    /\ Running /\ pc = "idle"
    /\ puzzle.type = "WordLadderPuzzle"
    /\ Enter(FALSE)
    /\ ret' = NoCall
    /\ out' = NoOutput
    /\ UNCHANGED <<words, tree, cur>>

\* solve_in_breadth returns (ok, val) to hint_by_breadth or solve_breadth, and that
\* to the Controller; the locals queue and extensions are dropped, used_words
\* lives on while the state returned refers to it
Leave(ok, val) ==
    /\ pc' = "idle"
    /\ queue' = <<>>
    /\ pending' = <<>>
    /\ IF hint
       THEN /\ acc' = <<>>
            /\ ret' = [fn |-> "hint_by_breadth", arg |-> root, rtype |-> "str",
                       val |-> IF ok THEN val ELSE NoExtensions]
            /\ out' = Returns("Try entering: ", IF ok THEN val ELSE NoExtensions, FALSE)
       ELSE /\ acc' = acc
            /\ ret' = [fn |-> "solve", arg |-> root, val |-> IF ok THEN val ELSE None]
            /\ out' = IF ok THEN Returns("", ToStr(val), TRUE)
                      ELSE Returns("There are no solutions.", <<>>, TRUE)
    /\ UNCHANGED <<hint, root>>

\* a mutant of line 193: the head of the queue is read and left on the queue
PeekLeft(q) == q

\* line 193, queue.popleft(): what is left on the queue
PopLeft(q) == Tail(q)

\* line 192-193: the while test, and queue.popleft().extensions()
BfsWhile ==
    /\ pc = "while"
    /\ IF Len(queue) > 0
       THEN /\ pending' = extensions(Head(queue))
            /\ queue' = PopLeft(queue)
            /\ pc' = "for"
            /\ UNCHANGED <<hint, root, acc, ret, out>>
       ELSE Leave(FALSE, None)
    /\ UNCHANGED <<words, puzzle, tree, cur>>

\* lines 194-205: one pass of the for loop, or its end
BfsFor ==
    /\ pc = "for"
    /\ IF pending = <<>>
       THEN /\ pc' = "while"
            /\ UNCHANGED <<hint, root, queue, acc, pending, ret, out>>
       ELSE LET extension == AddTriedWords(Head(pending))
            IN  IF is_solved(extension)
                THEN IF hint
                     THEN Leave(TRUE, NextWord(extension.used_words, root.start))
                     ELSE Leave(TRUE, extension)
                ELSE /\ queue' = Append(queue, extension)
                     /\ acc' = Append(acc, generate_strings(root, extension))
                     /\ pending' = Tail(pending)
                     /\ UNCHANGED <<pc, hint, root, ret, out>>
    /\ UNCHANGED <<words, puzzle, tree, cur>>

----------------------------------------------------------------------------
(* The word ladder game. *)

Dictionary ==
    << <<"h", "o", "t">>, <<"h", "i", "t">>, <<"h", "a", "t">>, <<"c", "a", "t">>,
       <<"c", "o", "t">>, <<"d", "o", "g">>, <<"c", "o", "g">>, <<"d", "o", "t">> >>

\* the words of the file, in the order of Dictionary
Vocabulary == SubSeq(Dictionary, 1, IF NumWords < Len(Dictionary) THEN NumWords ELSE Len(Dictionary))

\* what the player may type as a move
LadderInputs == Range(Dictionary)

Start(p) ==
    /\ puzzle = p
    /\ tree = <<ControllerTree(p, None)>>
    /\ cur = 1
    /\ out = NoOutput
    /\ ret = NoCall
    /\ pc = "idle"
    /\ hint = FALSE
    /\ root = None
    /\ queue = <<>>
    /\ acc = <<>>
    /\ pending = <<>>

\* the end words the player chooses among: one inside the graph, one cut off from it
Targets == {Dictionary[5], Dictionary[6]}

\* main: start and end are the player's
InitLadder ==
    /\ words = Vocabulary
    /\ \E start \in Range(Vocabulary), target \in Targets :
           Start(WordLadderPuzzle(start, target, <<>>))

NextLadder ==
    \/ \E action \in LadderInputs : ActMove(action)
    \/ ActUndo
    \/ ActAttempts
    \/ ActDisplay
    \/ ActExit
    \/ ActHintBreadth
    \/ ActSolveBreadth
    \/ ActSolveAll
    \/ BfsWhile
    \/ BfsFor

SpecLadder == InitLadder /\ [][NextLadder]_vars

\* where solve_in_breadth stands and its locals: every step of it changes them
SearchVars == <<pc, queue, acc, pending>>

\* solve_in_breadth runs inside one call of act: nothing stops it between two of
\* its steps
SpecLadderRuns == SpecLadder /\ WF_SearchVars(BfsWhile) /\ WF_SearchVars(BfsFor)

----------------------------------------------------------------------------
(* The Sudoku game. *)

\* a grid whose first empty cell takes A or B: A leaves (0, 1) without a letter,
\* B leads to the one solution
BacktrackGrid ==
    << <<"", "", "C", "D">>,
       <<"C", "D", "A", "B">>,
       <<"", "B", "D", "C">>,
       <<"D", "C", "B", "A">> >>

\* a grid whose first empty cell takes A and C by its row and column, and A only
\* by its subsquare
SubsquareGrid ==
    << <<"", "B", "", "D">>,
       <<"D", "C", "A", "B">>,
       <<"B", "A", "D", "C">>,
       <<"", "D", "B", "A">> >>

\* a grid with two solutions: A and C change places in rows 0 and 1
TwinGrid ==
    << <<"", "B", "", "D">>,
       <<"", "D", "", "B">>,
       <<"B", "A", "D", "C">>,
       <<"D", "C", "B", "A">> >>

\* the grids of the doctest of is_solved: a solved one, and a full one whose
\* columns and subsquares hold letters twice
SolvedGrid ==
    << <<"A", "B", "C", "D">>,
       <<"C", "D", "A", "B">>,
       <<"B", "A", "D", "C">>,
       <<"D", "C", "B", "A">> >>

UnsolvedGrid ==
    << <<"A", "B", "C", "D">>,
       <<"C", "D", "A", "B">>,
       <<"B", "D", "A", "C">>,
       <<"D", "C", "B", "A">> >>

\* a full grid whose rows and columns are right and whose subsquares are not
LatinGrid ==
    << <<"A", "B", "C", "D">>,
       <<"B", "C", "D", "A">>,
       <<"C", "D", "A", "B">>,
       <<"D", "A", "B", "C">> >>

\* a full grid whose columns and subsquares are right and whose rows are not
RowsGrid ==
    << <<"A", "A", "C", "C">>,
       <<"B", "B", "D", "D">>,
       <<"C", "C", "A", "A">>,
       <<"D", "D", "B", "B">> >>

\* a solved grid of size n = m * m
Pattern(n) ==
    LET m == ISqrt(n)
    IN  [i \in 1..n |-> [j \in 1..n |->
            CHARS[((((i - 1) % m) * m + ((i - 1) \div m) + (j - 1)) % n) + 1]]]

\* grid with the cells at holes emptied
Emptied(grid, holes) ==
    [i \in 1..Len(grid) |-> [j \in 1..Len(grid) |->
        IF <<i - 1, j - 1>> \in holes THEN "" ELSE grid[i][j]]]

\* the grids a game starts from: sizes 4, 9 and 16, cells to fill in rows and
\* columns below and above 10
InitGrids ==
    {BacktrackGrid, SubsquareGrid, TwinGrid, SolvedGrid, UnsolvedGrid, LatinGrid, RowsGrid}
        \cup {Emptied(Pattern(9), h) : h \in {{<<8, 1>>}}}
        \cup {Emptied(Pattern(16), h) : h \in {{<<5, 12>>}, {<<11, 3>>}}}

\* the cells the player names: the cells to fill of the grids above, a filled
\* cell, and cells outside the grid
InputCells(n) ==
    {<<1, 1>>, <<n, 0>>, <<0, n>>} \cup
    (IF n = 4 THEN {<<0, 0>>, <<0, 1>>, <<0, 2>>, <<2, 0>>, <<3, 0>>}
     ELSE IF n = 9 THEN {<<8, 1>>}
     ELSE {<<5, 12>>, <<11, 3>>})

\* the letters the player types: some of the puzzle's, and the first that is not
InputLetters(n) == {"A", "B", "C", CHARS[n + 1]}

\* texts that are not of the form '(row, col) -> letter'
Malformed ==
    {<<>>, <<"(">>, <<"(", "1", ",">>, <<"(", "a", ",", " ", "1", ")", " ", "-", ">", " ", "A">>,
     <<"(", "1", ",", " ", "b", ")", " ", "-", ">", " ", "A">>}

\* what the player may type as a move
GridInputs(n) ==
    {MoveStr(cell[1], cell[2], l) : cell \in InputCells(n), l \in InputLetters(n)} \cup Malformed

InitGrid ==
    /\ words = <<>>
    /\ \E grid \in InitGrids : Start(SudokuPuzzle(grid))

NextGrid ==
    \/ \E action \in GridInputs(puzzle.n) : ActMove(action) /\ Len(tree') <= MaxNodes
    \/ ActUndo
    \/ ActAttempts
    \/ ActDisplay
    \/ ActExit
    \/ ActHintDepth
    \/ \E n \in 0..MaxLimit : CallHintByDepth(n)
    \/ ActSolveDepth
    \/ ActSolveAll

SpecGrid == InitGrid /\ [][NextGrid]_vars

\* a grid with three cells to fill, in any order
OrderGrids == {SubsquareGrid}

\* main, for a game of moves and undo
InitOrders ==
    /\ words = <<>>
    /\ \E grid \in OrderGrids : Start(SudokuPuzzle(grid))

NextOrders ==
    \/ \E action \in GridInputs(puzzle.n) : ActMove(action)
    \/ ActUndo

SpecOrders == InitOrders /\ [][NextOrders]_vars

----------------------------------------------------------------------------
(* Properties of the solvers and of the word ladder game. *)

\* C1: solve(s) returns None if and only if solve_complete(s) returns no solution,
\* for every state s, solved ones included
C1_SolveNoneIffNoSolutions ==
    ret.fn = "solve" => ((ret.val = None) <=> (solve_complete(ret.arg) = <<>>))

\* C2: every extension e of a state s is reached again by the move that
\* generate_strings(s, e) describes: the move succeeds and gives the display of e
C2_RoundTrip ==
    \A e \in Range(extensions(puzzle)) :
        LET again == move(puzzle, generate_strings(puzzle, e))
        IN  ~Raised(again) /\ ToStr(again) = ToStr(e)

\* C3: a move naming a row or a column outside [0, n) fails with ValueError, and
\* with no other error
C3_OutsideIsValueError ==
    puzzle.type = "SudokuPuzzle" =>
        \A cell \in InputCells(puzzle.n), l \in InputLetters(puzzle.n) :
            (cell[1] >= puzzle.n \/ cell[2] >= puzzle.n) =>
                move(puzzle, MoveStr(cell[1], cell[2], l)) = Raise("ValueError")

\* the children of a node whose puzzle is displayed as p is
ChildrenShowing(node, p) ==
    {c \in Range(tree[node].subtrees) : ToStr(tree[c].puzzle) = ToStr(p)}

NoTwinChildren ==
    \A node \in 1..Len(tree) : \A a, b \in 1..Len(tree[node].subtrees) :
        LET subs == tree[node].subtrees
        IN  a # b => ToStr(tree[subs[a]].puzzle) # ToStr(tree[subs[b]].puzzle)

\* a move that is made goes to the child that shows its result when there is one,
\* and adds a node only when there is none
MoveReusesChild ==
    \A action \in LadderInputs :
        (puzzle' # puzzle /\ ActMove(action) /\ ~Raised(move(puzzle, action))) =>
            LET twins == ChildrenShowing(cur, move(puzzle, action))
            IN  IF twins # {}
                THEN tree' = tree /\ cur' \in twins
                ELSE Len(tree') = Len(tree) + 1 /\ cur' = Len(tree')

\* C4: no node of the history tree has two children with equal displays; a move to
\* a state that a child of the current node shows goes to that child and adds no node
C4_NoTwinChildren == [][NoTwinChildren' /\ MoveReusesChild]_vars

\* the current node is the older of two children of the root, and its state is
\* shown: it was made, left by undo, and entered again by the same move
C4_Reentered ==
    /\ Len(tree) = 3 /\ tree[1].subtrees = <<2, 3>> /\ cur = 2
    /\ ~Raised(out) /\ out.msg.arg = ToStr(tree[2].puzzle) /\ puzzle = tree[2].puzzle

\* the words differ in exactly one position
OneApart(a, b) ==
    Len(a) = Len(b) /\ Cardinality({i \in 1..Len(a) : a[i] # b[i]}) = 1

\* the words of the vocabulary a chain from s may go through
Free(s) == Range(words) \ Range(s.used_words)

RECURSIVE Within(_, _, _)
\* the words a chain of at most k steps through free leads to from w
Within(w, free, k) ==
    IF k = 0 THEN {w}
    ELSE LET near == Within(w, free, k - 1)
         IN  near \cup {v \in free : \E u \in near : OneApart(u, v)}

\* the length of the shortest chain from w to target through free, -1 without one
Distance(w, target, free) ==
    LET ks == {k \in 0..Cardinality(free) : target \in Within(w, free, k)}
    IN  IF ks = {} THEN -1 ELSE CHOOSE k \in ks : \A q \in ks : k <= q

\* C5: on an unsolved state, hint_by_breadth returns a candidate word that starts a
\* shortest chain to the target through unused words of the vocabulary, and
\* 'no possible extensions' when there is no chain
C5_HintStartsShortestChain ==
    (ret.fn = "hint_by_breadth" /\ ~is_solved(ret.arg)) =>
        LET s == ret.arg
            d == Distance(s.start, s.target, Free(s))
        IN  IF d = -1 THEN ret.val = NoExtensions
            ELSE /\ ret.val \in Free(s)
                 /\ OneApart(s.start, ret.val)
                 /\ Distance(ret.val, s.target, Free(s)) = d - 1

\* the hint from hit to cot is hot, two steps from the target
C5_HintFromHit ==
    /\ ret.fn = "hint_by_breadth"
    /\ ret.arg.used_words = <<Dictionary[2]>> /\ ret.arg.target = Dictionary[5]
    /\ ret.val = Dictionary[1]

\* C6: on an unsolved state with a chain to the target, solve returns a solved
\* state whose used_words are those of the state followed by a shortest valid
\* chain: steps of one letter, words of the vocabulary, no word twice
C6_SolveShortestChain ==
    (/\ ret.fn = "solve" /\ ret.arg.type = "WordLadderPuzzle"
     /\ ~is_solved(ret.arg)
     /\ Distance(ret.arg.start, ret.arg.target, Free(ret.arg)) # -1) =>
        /\ ret.val # None
        /\ LET old == ret.arg.used_words
               chain == ret.val.used_words
           IN  /\ Len(chain) = Len(old) + Distance(ret.arg.start, ret.arg.target, Free(ret.arg))
               /\ SubSeq(chain, 1, Len(old)) = old
               /\ \A k \in Len(old)..(Len(chain) - 1) : OneApart(chain[k], chain[k + 1])
               /\ \A k \in (Len(old) + 1)..Len(chain) : chain[k] \in Range(words)
               /\ \A j, k \in 1..Len(chain) : j # k => chain[j] # chain[k]
               /\ chain[Len(chain)] = ret.arg.target
               /\ ret.val.start = ret.arg.target /\ ret.val.target = ret.arg.target

\* solve after the move from hit to hat, with cot three steps away or two
C6_SolvedAfterMove ==
    /\ ret.fn = "solve" /\ ret.arg.type = "WordLadderPuzzle"
    /\ Len(ret.arg.used_words) = 2
    /\ ret.val # None /\ Len(ret.val.used_words) >= 4

\* a is before b in alphabetical order
Before(a, b) ==
    \E i \in 1..Len(a) :
        /\ i <= Len(b) /\ Ord(a[i]) < Ord(b[i])
        /\ \A j \in 1..(i - 1) : a[j] = b[j]

\* the words of ws in alphabetical order
InOrder(ws) ==
    [k \in 1..Cardinality(ws) |->
        CHOOSE w \in ws : Cardinality({v \in ws : Before(v, w)}) = k - 1]

\* the states extensions acts on: the one played, and those solve_in_breadth holds
LadderStates == {puzzle} \cup Range(queue)

\* C8: the extensions of a state are one state for each word of the vocabulary
\* that is one letter from its word and neither used nor tried, in alphabetical
\* order and once each: the word, the same target, used_words with the word added
C8_ExtensionsAreUntriedNeighbours ==
    \A s \in LadderStates :
        s.type = "WordLadderPuzzle" =>
            LET found == InOrder({w \in Range(words) :
                                     /\ OneApart(w, s.start)
                                     /\ ~In(w, s.used_words)
                                     /\ ~In(w, TriedWords(s))})
                exts == extensions(s)
            IN  /\ Len(exts) = Len(found)
                /\ \A k \in 1..Len(found) :
                       /\ exts[k].start = found[k]
                       /\ exts[k].target = s.target
                       /\ exts[k].used_words = Append(s.used_words, found[k])

\* solve_in_breadth holds a state with a neighbour that is tried and not used, and
\* with an extension left
C8_TriedNeighbour ==
    \E s \in Range(queue) :
        /\ extensions(s) # <<>>
        /\ \E w \in Range(words) :
               OneApart(w, s.start) /\ ~In(w, s.used_words) /\ In(w, TriedWords(s))

----------------------------------------------------------------------------
(* Properties of the Sudoku game. *)

\* the cells of s, as (row, column) from 0
Cells(s) == (0..(s.n - 1)) \X (0..(s.n - 1))

Empties(s) == {c \in Cells(s) : Cell(s, c[1], c[2]) = ""}

\* the first empty cell in row-major order
FirstEmpty(s) ==
    CHOOSE c \in Empties(s) :
        \A d \in Empties(s) : c[1] < d[1] \/ (c[1] = d[1] /\ c[2] <= d[2])

\* c and d share a row, a column or a subsquare
Related(s, c, d) ==
    LET m == ISqrt(s.n)
    IN  \/ c[1] = d[1]
        \/ c[2] = d[2]
        \/ (c[1] \div m = d[1] \div m /\ c[2] \div m = d[2] \div m)

Letters(n) == {CHARS[k] : k \in 1..n}

\* the rows, the columns and the subsquares of s, each the set of its cells
Groups(s) ==
    LET m == ISqrt(s.n)
        ks == 0..(s.n - 1)
    IN  {{<<i, j>> : j \in ks} : i \in ks}
            \cup {{<<i, j>> : i \in ks} : j \in ks}
            \cup {{<<(k \div m) * m + (q \div m), (k % m) * m + (q % m)>> : q \in ks} : k \in ks}

\* no letter is twice in a row, a column or a subsquare
ConflictFree(s) ==
    \A g \in Groups(s) : \A c, d \in g :
        (c # d /\ Cell(s, c[1], c[2]) # "") => Cell(s, c[1], c[2]) # Cell(s, d[1], d[2])

\* the letters of ls in alphabetical order
Alphabetical(ls) ==
    [k \in 1..Cardinality(ls) |->
        CHOOSE l \in ls : Cardinality({o \in ls : Ord(o) < Ord(l)}) = k - 1]

\* C7: the extensions of a conflict-free state with an empty cell are the state
\* with its first empty cell set to each letter that its row, column and
\* subsquare lack, in alphabetical order; a state without empty cell has none
C7_ExtensionsFillFirstEmpty ==
    puzzle.type = "SudokuPuzzle" =>
        IF Empties(puzzle) = {} THEN extensions(puzzle) = <<>>
        ELSE ConflictFree(puzzle) =>
                LET c == FirstEmpty(puzzle)
                    seen == {Cell(puzzle, d[1], d[2]) : d \in {d \in Cells(puzzle) : Related(puzzle, c, d)}}
                    letters == Alphabetical(Letters(puzzle.n) \ seen)
                IN  extensions(puzzle) =
                        [k \in 1..Len(letters) |->
                            [puzzle EXCEPT !.grid[c[1] + 1][c[2] + 1] = letters[k]]]

\* solve_complete has gone through the extensions of a state whose first empty
\* cell has two letters left, one of them leading nowhere
C7_TwoExtensions ==
    /\ puzzle.type = "SudokuPuzzle" /\ Empties(puzzle) # {}
    /\ Len(extensions(puzzle)) = 2
    /\ ret.fn = "solve_complete" /\ ret.arg = puzzle /\ Len(ret.val) = 1

\* every cell is filled, and a letter is twice in a row, a column or a subsquare
FullAndWrong(s) == Empties(s) = {} /\ ~ConflictFree(s)

\* C9: a full grid that breaks a constraint is not solved and has no extensions;
\* solve returns None, solve_complete no solution, hint_by_depth 'no possible
\* extensions'
C9_FullWrongGridIsDeadEnd ==
    (puzzle.type = "SudokuPuzzle" /\ FullAndWrong(puzzle)) =>
        /\ ~is_solved(puzzle)
        /\ extensions(puzzle) = <<>>
        /\ solve_depth(puzzle) = None
        /\ solve_complete(puzzle) = <<>>
        /\ \A n \in 0..MaxLimit \cup {DefaultLimit} : hint_by_depth(puzzle, n).val = NoExtensions
        /\ ret.fn = "solve" => ret.val = None
        /\ ret.fn = "solve_complete" => ret.val = <<>>
        /\ ret.fn = "hint_by_depth" => ret.val = NoExtensions

\* solve has returned None on the full grid whose subsquares alone are wrong
C9_SolvedLatinGrid ==
    /\ puzzle.type = "SudokuPuzzle" /\ puzzle.grid = LatinGrid
    /\ FullAndWrong(puzzle)
    /\ ret.fn = "solve" /\ ret.val = None

RECURSIVE SolvedWithin(_, _)
\* a solved state is k moves or fewer from s
SolvedWithin(s, k) ==
    /\ k >= 0
    /\ \/ is_solved(s)
       \/ \E e \in Range(extensions(s)) : SolvedWithin(e, k - 1)

\* C10: for a limit n >= 0, hint_by_depth returns 'already solved' on a solved
\* state, else the move to the first extension with a solved state within n - 1
\* further moves, and 'no possible extensions' when there is none; it looks at
\* no state more than n moves away
C10_HintWithinLimit ==
    ret.fn = "hint_by_depth" =>
        LET s == ret.arg
            exts == extensions(s)
            good == {k \in 1..Len(exts) : SolvedWithin(exts[k], ret.n - 1)}
        IN  /\ IF is_solved(s) THEN ret.val = AlreadySolved
               ELSE IF good = {} THEN ret.val = NoExtensions
               ELSE ret.val = generate_strings(s, exts[CHOOSE k \in good : \A q \in good : k <= q])
            /\ ret.probed <= ret.n

----------------------------------------------------------------------------
(* Properties of undo and of the moves of the two puzzles. *)

\* the nodes that have node among their children
ParentsOf(t, node) == {q \in 1..Len(t) : \E k \in 1..Len(t[q].subtrees) : t[q].subtrees[k] = node}

\* undo goes to the one parent of the current node and takes its puzzle; at the
\* root it changes nothing and says so
UndoGoesToParent ==
    (pc = "idle" /\ ActUndo) =>
        IF cur = 1
        THEN /\ cur' = cur /\ puzzle' = puzzle
             /\ out' = Returns("You have not made any moves.", <<>>, FALSE)
        ELSE /\ Cardinality(ParentsOf(tree, cur)) = 1
             /\ cur' \in ParentsOf(tree, cur)
             /\ puzzle' = tree[cur'].puzzle
             /\ out' = Returns("", ToStr(tree[cur'].puzzle), FALSE)

\* a move that is made leaves the node it came from as the one parent of the
\* current node, holding the puzzle as it was displayed before the move
MoveKeepsWayBack ==
    \A action \in LadderInputs :
        (puzzle' # puzzle /\ ActMove(action) /\ ~Raised(move(puzzle, action))) =>
            /\ ParentsOf(tree', cur') = {cur}
            /\ ToStr(tree'[cur].puzzle) = ToStr(puzzle)

\* C11: undo at a node other than the root goes to the one node that has it as a
\* child and takes that node's puzzle, so that move and undo give back the node
\* and the display from before the move; undo at the root changes neither
C11_UndoRestores == [][UndoGoesToParent /\ MoveKeepsWayBack]_vars

\* undo has gone back from the second of two moves to the first
C11_UndoneSecondMove ==
    /\ Len(tree) = 3 /\ tree[1].subtrees = <<2>> /\ tree[2].subtrees = <<3>>
    /\ cur = 2 /\ puzzle = tree[2].puzzle
    /\ ~Raised(out) /\ out.msg.arg = ToStr(tree[2].puzzle)

\* the letters that the row, the column and the subsquare of cell c of s lack
Candidates(s, c) ==
    Letters(s.n) \ {Cell(s, d[1], d[2]) : d \in {d \in Cells(s) : Related(s, c, d)}}

\* C12: a move '(row, col) -> letter' on a cell of the grid fails with ValueError
\* when the cell is filled or the letter is not a candidate of the cell, and
\* otherwise returns the state with that cell set to the letter
C12_MoveFillsCell ==
    puzzle.type = "SudokuPuzzle" =>
        \A c \in InputCells(puzzle.n) \cap Cells(puzzle), l \in InputLetters(puzzle.n) :
            LET made == move(puzzle, MoveStr(c[1], c[2], l))
            IN  IF Cell(puzzle, c[1], c[2]) # "" \/ l \notin Candidates(puzzle, c)
                THEN made = Raise("ValueError")
                ELSE made = [puzzle EXCEPT !.grid[c[1] + 1][c[2] + 1] = l]

\* texts a move is tried with: the words of the dictionary, in the vocabulary or
\* not, the empty text and a text of another length
LadderTexts == LadderInputs \cup {<<>>, <<"h", "o">>}

\* the state that the move t from s is to give
Moved(s, t) ==
    [type |-> "WordLadderPuzzle", start |-> t, target |-> s.target,
     used_words |-> Append(s.used_words, t), tried_words |-> "own"]

\* C13 as stated: move(t) fails with ValueError if t is not in the vocabulary, is
\* not one letter from the current word or is in used_words, and otherwise
\* returns the state with t as current word and added to used_words
C13_MoveUnlessUsed ==
    \A s \in LadderStates : \A t \in LadderTexts :
        IF t \notin Range(words) \/ ~OneApart(t, s.start) \/ In(t, s.used_words)
        THEN move(s, t) = Raise("ValueError")
        ELSE move(s, t) = Moved(s, t)

\* C13, amended: move(t) fails with ValueError if t is not in the vocabulary, is
\* not one letter from the current word or is in used_words or in tried_words,
\* and otherwise returns the state with t as current word and added to used_words
C13_MoveUnlessUsedOrTried ==
    \A s \in LadderStates : \A t \in LadderTexts :
        IF \/ t \notin Range(words) \/ ~OneApart(t, s.start)
           \/ In(t, s.used_words) \/ In(t, TriedWords(s))
        THEN move(s, t) = Raise("ValueError")
        ELSE move(s, t) = Moved(s, t)

\* a state held by solve_in_breadth refuses a neighbour that is tried and not
\* used, and takes another one
C13_TriedRefused ==
    \E s \in Range(queue) : \E t, u \in Range(words) :
        /\ OneApart(t, s.start) /\ ~In(t, s.used_words) /\ In(t, TriedWords(s))
        /\ move(s, t) = Raise("ValueError")
        /\ move(s, u) = Moved(s, u)

\* C14: a move text that is empty, too short or has no digit where an index is
\* read fails with ValueError, and no move fails with another error
C14_MalformedIsValueError ==
    puzzle.type = "SudokuPuzzle" =>
        /\ \A t \in Malformed : move(puzzle, t) = Raise("ValueError")
        /\ \A t \in GridInputs(puzzle.n) :
               Raised(move(puzzle, t)) => move(puzzle, t) = Raise("ValueError")

\* the texts a move of s is tried with
Texts(s) == IF s.type = "SudokuPuzzle" THEN GridInputs(s.n) ELSE LadderTexts

\* t is the description of an extension of s
NamesExtension(s, t) == \E e \in Range(extensions(s)) : generate_strings(s, e) = t

\* C15: a move that succeeds gives the display of an extension of the state, and
\* a text that names no extension makes move fail with ValueError
C15_MoveIsAnExtension ==
    \A t \in Texts(puzzle) :
        LET made == move(puzzle, t)
        IN  /\ ~Raised(made) => \E e \in Range(extensions(puzzle)) : ToStr(made) = ToStr(e)
            /\ ~NamesExtension(puzzle, t) => made = Raise("ValueError")

\* the state before is after a step in display and extensions: its extensions
\* are those of its fields, of the words and of the list of tried words it
\* refers to, and that list is not added to
Kept(before, after) ==
    /\ \/ after = before
       \/ ToStr(after) = ToStr(before) /\ extensions(after) = extensions(before)
    /\ words' = words
    /\ (after.type = "WordLadderPuzzle" /\ after.tried_words = "acc") => acc' = acc

\* the puzzles of the history tree are as they were
NodesKept == \A k \in 1..Len(tree) : Kept(tree[k].puzzle, tree'[k].puzzle)

\* the puzzle played is as it was unless a move or undo has put another in its place
PlayedKept == cur' = cur => Kept(puzzle, puzzle')

----------------------------------------------------------------------------
(* Properties of solve_complete, of the breadth-first search and of the states. *)

RECURSIVE Flatten(_)
\* the sequences of lists one after the other
Flatten(lists) == IF lists = <<>> THEN <<>> ELSE Head(lists) \o Flatten(Tail(lists))

RECURSIVE FirstSolved(_)
\* the solved states reached from s by extensions, none of them through a solved state
FirstSolved(s) ==
    IF is_solved(s) THEN {s}
    ELSE UNION {FirstSolved(e) : e \in Range(extensions(s))}

\* C17: solve_complete(s) is [s] for a solved s, and else the solutions of the
\* extensions of s one after the other in their order; it holds the solved states
\* first reached from s and no others, each once by display
C17_AllSolutionsInOrder ==
    ret.fn = "solve_complete" =>
        LET s == ret.arg
            exts == extensions(s)
        IN  /\ IF is_solved(s) THEN ret.val = <<s>>
               ELSE ret.val = Flatten([k \in 1..Len(exts) |-> solve_complete(exts[k])])
            /\ Range(ret.val) = FirstSolved(s)
            /\ \A k \in 1..Len(ret.val) : is_solved(ret.val[k])
            /\ \A j, k \in 1..Len(ret.val) : j # k => ToStr(ret.val[j]) # ToStr(ret.val[k])

\* solve_complete has returned more than one solution, from more than one extension
C17_SeveralSolutions ==
    /\ ret.fn = "solve_complete" /\ ~is_solved(ret.arg)
    /\ Len(ret.val) >= 3
    /\ Cardinality({k \in 1..Len(extensions(ret.arg)) : solve_complete(extensions(ret.arg)[k]) # <<>>}) >= 2

\* no element of lst is in it twice
NoRepeat(lst) == \A j, k \in 1..Len(lst) : j # k => lst[j] # lst[k]

\* while solve_in_breadth runs: used_words holds the word of every state put on
\* the queue, each once, and none of them is a word of the ladder searched from
SearchedOnce ==
    pc # "idle" =>
        /\ NoRepeat(acc)
        /\ \A k \in 1..Len(acc) : ~In(acc[k], root.used_words)
        /\ \A k \in 1..Len(queue) :
               queue[k] = root \/ (In(queue[k].start, acc) /\ ~In(queue[k].start, root.used_words))

\* while solve_in_breadth runs, used_words is added to at its end and in no other way
TriedGrows ==
    (pc # "idle" /\ pc' # "idle") =>
        /\ Len(acc') >= Len(acc)
        /\ SubSeq(acc', 1, Len(acc)) = acc
        /\ Len(queue') > Len(queue) =>
               /\ acc' = Append(acc, queue'[Len(queue')].start)
               /\ ~In(queue'[Len(queue')].start, acc)

\* C18: in one breadth-first search no word is put on the queue twice, the list of
\* tried words only grows, and no state put on the queue has as its word a word
\* of the ladder the search started from
C18_SearchVisitsOnce == [][SearchedOnce' /\ TriedGrows]_vars

\* the search holds a state of its second level, with words tried and extensions to go
C18_SecondLevel ==
    /\ pc = "for" /\ pending # <<>>
    /\ Len(acc) >= 3
    /\ \E k \in 1..Len(queue) : Len(queue[k].used_words) = Len(root.used_words) + 2

RECURSIVE Descendants(_)
\* s and the states that sequences of extensions lead to from it
Descendants(s) == {s} \cup UNION {Descendants(e) : e \in Range(extensions(s))}

\* C19: in a game that starts from a grid without conflict, the grid played, the
\* grids of the history tree and the grids that extensions lead to from them
\* hold no letter twice in a row, a column or a subsquare
C19_GridsStayConflictFree ==
    (puzzle.type = "SudokuPuzzle" /\ ConflictFree(tree[1].puzzle)) =>
        /\ \A k \in 1..Len(tree) : ConflictFree(tree[k].puzzle)
        /\ \A s \in Descendants(puzzle) : ConflictFree(s)

\* two moves have been made, the second not to the first empty cell, and an
\* extension is left
C19_TwoMovesMade ==
    /\ puzzle.type = "SudokuPuzzle" /\ ConflictFree(tree[1].puzzle)
    /\ Len(tree) = 3 /\ cur = 3 /\ tree[2].subtrees = <<3>>
    /\ Cardinality(Empties(puzzle)) = Cardinality(Empties(tree[1].puzzle)) - 2
    /\ FirstEmpty(tree[1].puzzle) \in Empties(puzzle)
    /\ extensions(puzzle) # <<>>

\* the ladder of s ends in its word, holds no word twice and goes by one letter
Ladder(s) ==
    /\ s.used_words # <<>> /\ s.used_words[Len(s.used_words)] = s.start
    /\ NoRepeat(s.used_words)
    /\ \A k \in 1..(Len(s.used_words) - 1) : OneApart(s.used_words[k], s.used_words[k + 1])

\* the states a game holds: the one played, those of the history tree, those of
\* the search and those the solvers have returned
StatesHeld ==
    {puzzle} \cup {tree[k].puzzle : k \in 1..Len(tree)}
        \cup Range(queue) \cup Range(pending)
        \cup (IF ret.fn = "solve" /\ ret.val # None THEN {ret.val} ELSE {})
        \cup (IF ret.fn = "solve_complete" THEN Range(ret.val) ELSE {})

\* C20: in a game from a puzzle made of its start word alone, every state reached
\* by moves and extensions has a ladder that ends in its word, holds no word
\* twice and goes by one letter from each word to the next
C20_LadderIsAChain ==
    (puzzle.type = "WordLadderPuzzle" /\ tree[1].puzzle.used_words = <<tree[1].puzzle.start>>) =>
        \A s \in StatesHeld : Ladder(s) /\ \A e \in Range(extensions(s)) : Ladder(e)

\* two moves have been made and a search from there holds a state two words on
C20_FourWords ==
    /\ puzzle.type = "WordLadderPuzzle" /\ Len(tree[1].puzzle.used_words) = 1
    /\ Len(puzzle.used_words) = 3 /\ cur = 3
    /\ \E s \in Range(queue) : Len(s.used_words) = 5

----------------------------------------------------------------------------
(* Properties of the end of the search, of the history tree and of hints. *)

\* the words solve_in_breadth has put on the queue are words of the vocabulary,
\* each put there once, the word searched from among them
EnqueuedOnce ==
    pc # "idle" =>
        /\ NoRepeat(<<root.start>> \o acc)
        /\ Range(acc) \subseteq Range(words)
        /\ Len(acc) + 1 <= Len(words)

\* a pass of the while loop takes one state off the queue, and only a pass of the
\* for loop that puts a state on the queue adds to used_words
QueueShrinks ==
    /\ (pc = "while" /\ Len(queue) > 0) => (Len(queue') = Len(queue) - 1 /\ acc' = acc)
    /\ (pc = "for" /\ pc' = "for") => (Len(queue') = Len(queue) + 1 /\ Len(acc') = Len(acc) + 1)

\* C21: hint_by_breadth and the breadth-first solve end, with the queue empty or
\* at a solved extension, and put no word of the vocabulary on the queue twice
C21_SearchEnds == []EnqueuedOnce /\ [][QueueShrinks]_vars /\ ((pc # "idle") ~> (pc = "idle"))

\* solve has ended with the queue empty after every word that a chain leads to
\* was on the queue
C21_QueueEmptied ==
    /\ pc = "idle" /\ ret.fn = "solve" /\ ret.val = None
    /\ Len(acc) >= 4 /\ Len(acc) + 2 = Len(words)

\* the nodes of the history tree are there after the step as they were: puzzle,
\* move text, parent, and the children they had, in their order
NodesStay ==
    /\ Len(tree') >= Len(tree)
    /\ \A k \in 1..Len(tree) :
           /\ tree'[k].puzzle = tree[k].puzzle
           /\ tree'[k].user_input = tree[k].user_input
           /\ ParentsOf(tree', k) = ParentsOf(tree, k)
           /\ Len(tree'[k].subtrees) >= Len(tree[k].subtrees)
           /\ SubSeq(tree'[k].subtrees, 1, Len(tree[k].subtrees)) = tree[k].subtrees

\* the history tree changes by a move that is made and by nothing else, and then
\* by one node: the last child of the node the move was made at, with the puzzle
\* and the text of the move
OnlyMovesAdd ==
    tree' # tree =>
        /\ Len(tree') = Len(tree) + 1
        /\ tree'[cur].subtrees = Append(tree[cur].subtrees, Len(tree'))
        /\ ParentsOf(tree', Len(tree')) = {cur}
        /\ \E action \in LadderInputs :
               /\ ActMove(action) /\ ~Raised(move(puzzle, action))
               /\ tree'[Len(tree')] = ControllerTree(move(puzzle, action), [str |-> action])

\* undo, a refused move, attempts, display and the steps of a hint add no node
OthersAddNone ==
    \/ Len(tree') = Len(tree)
    \/ ~ActUndo /\ ~ActAttempts /\ ~ActDisplay /\ ~ActHintBreadth /\ ~BfsWhile /\ ~BfsFor
          /\ \A action \in LadderInputs : ActMove(action) => ~Raised(move(puzzle, action))

\* C22: no step removes a node of the history tree or changes its parent, its
\* state or its move text; a move that is made adds at most one node, as a child
\* of the current node, and no other action adds one
C22_TreeOnlyGrows == [][NodesStay /\ OnlyMovesAdd /\ OthersAddNone]_vars

\* a move was refused at the root after two moves from it were made and undone
C22_RefusedAtRootOfThree ==
    /\ Len(tree) = 3 /\ tree[1].subtrees = <<2, 3>> /\ cur = 1
    /\ ~Raised(out) /\ out.msg.text = "Sorry, that is not a valid move. Please try again."

\* the nodes whose puzzle is displayed as p is
NodesShowing(p) == {k \in 1..Len(tree) : ToStr(tree[k].puzzle) = ToStr(p)}

\* a move that is made looks for its result among the children of the current
\* node: with none of them showing it a node is added, whatever other nodes show
\* it, and these stay besides the new one
DedupAmongChildren ==
    \A action \in GridInputs(puzzle.n) :
        (puzzle' # puzzle /\ ActMove(action) /\ ~Raised(move(puzzle, action))) =>
            LET new == move(puzzle, action)
            IN  IF ChildrenShowing(cur, new) = {}
                THEN /\ Len(tree') = Len(tree) + 1 /\ cur' = Len(tree')
                     /\ cur' \notin NodesShowing(new)
                     /\ ToStr(tree'[cur'].puzzle) = ToStr(new)
                     /\ \A k \in NodesShowing(new) : ToStr(tree'[k].puzzle) = ToStr(new)
                ELSE tree' = tree /\ cur' \in ChildrenShowing(cur, new)

\* C23: a move that is made is compared with the children of the current node
\* only: when none of them shows its result a node is added, also when a node
\* elsewhere in the tree shows it
C23_DedupIsLocal == [][DedupAmongChildren]_vars

\* two cells were filled in one order and then in the other: the two nodes show
\* the same grid and have different parents
C23_TwoOrders ==
    /\ Len(tree) = 5 /\ cur = 5
    /\ ToStr(tree[3].puzzle) = ToStr(tree[5].puzzle)
    /\ ParentsOf(tree, 3) = {2} /\ ParentsOf(tree, 5) = {4}
    /\ ToStr(tree[2].puzzle) # ToStr(tree[4].puzzle)

RECURSIVE Replay(_, _)
\* the state that the moves ws lead to from s, one after the other
Replay(s, ws) ==
    IF ws = <<>> \/ Raised(s) THEN s ELSE Replay(move(s, Head(ws)), Tail(ws))

\* C24: the state solve returns on a word ladder has the extensions, and takes
\* and refuses the moves, of the state with the same display that the words of
\* its chain lead to as moves from the state solved
C24_ReturnedBehavesAsPlayed ==
    (ret.fn = "solve" /\ ret.arg.type = "WordLadderPuzzle" /\ ret.val # None) =>
        LET chain == ret.val.used_words
            played == Replay(ret.arg, SubSeq(chain, Len(ret.arg.used_words) + 1, Len(chain)))
        IN  /\ ~Raised(played)
            /\ ToStr(played) = ToStr(ret.val)
            /\ extensions(ret.val) = extensions(played)
            /\ \A t \in LadderTexts : move(ret.val, t) = move(played, t)

\* what the player may type as a move of s
Inputs(s) == IF s.type = "SudokuPuzzle" THEN GridInputs(s.n) ELSE LadderInputs

\* a move that fails leaves the puzzle, the current node and the tree as they
\* were, and the game goes on
RefusedMoveKeepsAll ==
    \A action \in Inputs(puzzle) :
        (ActMove(action) /\ Raised(move(puzzle, action))) =>
            /\ puzzle' = puzzle /\ cur' = cur /\ tree' = tree
            /\ ~Raised(out') /\ ~out'.end

\* C25: after an action that is no command and whose move fails, the puzzle
\* played, the current node and the history tree are what they were before it,
\* and the game has not ended
C25_FailedMoveChangesNothing == [][RefusedMoveKeepsAll]_vars

RECURSIVE Under(_)
\* node and the nodes below it in the history tree
Under(node) == {node} \cup UNION {Under(c) : c \in Range(tree[node].subtrees)}

\* the puzzle of node k is displayed as the result of its move text applied to
\* the puzzle of its parent
MadeFromParent(k) ==
    \E q \in ParentsOf(tree, k) :
        LET made == move(tree[q].puzzle, tree[k].user_input.str)
        IN  ~Raised(made) /\ ToStr(made) = ToStr(tree[k].puzzle)

\* C26: the puzzle played is displayed as the puzzle of the current node is, the
\* current node is a node of the tree under the first node, which holds the
\* initial state and is the one node without a move text, and the puzzle of every
\* other node is displayed as the result of its move text on its parent's puzzle
C26_CursorAndTreeAgree ==
    /\ ToStr(puzzle) = ToStr(tree[cur].puzzle)
    /\ cur \in Under(1)
    /\ Under(1) = 1..Len(tree)
    /\ tree[1].user_input = None /\ ParentsOf(tree, 1) = {}
    /\ \A k \in 2..Len(tree) : tree[k].user_input # None /\ MadeFromParent(k)

\* a hint was asked for at the first of two moves, after undo of the second
C26_HintAfterUndo ==
    /\ Len(tree) = 3 /\ tree[1].subtrees = <<2>> /\ tree[2].subtrees = <<3>> /\ cur = 2
    /\ ret.fn = "hint_by_depth" /\ ret.arg = puzzle

\* C27: on a grid, solve returns the first solution of solve_complete when there
\* is one, and the state itself when it is solved
C27_SolveIsFirstOfAll ==
    (ret.fn = "solve" /\ ret.arg.type = "SudokuPuzzle") =>
        LET all == solve_complete(ret.arg)
        IN  /\ all # <<>> => ret.val = all[1]
            /\ is_solved(ret.arg) => ret.val = ret.arg

\* solve was called on a grid with two solutions, reached by different extensions
C27_TwoSolutions ==
    /\ ret.fn = "solve" /\ ret.arg.type = "SudokuPuzzle" /\ ~is_solved(ret.arg)
    /\ Len(solve_complete(ret.arg)) = 2
    /\ Len(extensions(ret.arg)) = 2
    /\ \A e \in Range(extensions(ret.arg)) : solve_complete(e) # <<>>

\* every row, column and subsquare of s holds every letter
Complete(s) ==
    \A g \in Groups(s) : {Cell(s, c[1], c[2]) : c \in g} = Letters(s.n)

\* s with its empty cells set as f says
Filled(s, f) ==
    [s EXCEPT !.grid = [i \in 1..s.n |-> [j \in 1..s.n |->
        IF <<i - 1, j - 1>> \in DOMAIN f THEN f[<<i - 1, j - 1>>] ELSE s.grid[i][j]]]]

\* the full grids that agree with s on its filled cells and are complete
Completions(s) ==
    {Filled(s, f) : f \in {f \in [Empties(s) -> Letters(s.n)] : Complete(Filled(s, f))}}

\* C28: on a grid without conflict, solve returns a state if and only if a full
\* grid that holds every letter in every row, column and subsquare agrees with
\* the grid on its filled cells; the state returned is solved and is such a grid
C28_DepthFirstFindsCompletion ==
    (ret.fn = "solve" /\ ret.arg.type = "SudokuPuzzle" /\ ConflictFree(ret.arg)) =>
        /\ (ret.val # None) <=> (Completions(ret.arg) # {})
        /\ ret.val # None =>
               /\ is_solved(ret.val)
               /\ ret.val \in Completions(ret.arg)
               /\ \A c \in Cells(ret.arg) \ Empties(ret.arg) :
                      Cell(ret.val, c[1], c[2]) = Cell(ret.arg, c[1], c[2])

\* solve has found the completion of a grid after its first extension led to none
C28_FoundAfterBacktrack ==
    /\ ret.fn = "solve" /\ ret.arg.type = "SudokuPuzzle" /\ ConflictFree(ret.arg)
    /\ Cardinality(Empties(ret.arg)) >= 3
    /\ Len(extensions(ret.arg)) = 2
    /\ solve_depth(extensions(ret.arg)[1]) = None
    /\ ret.val # None /\ ret.val = solve_depth(extensions(ret.arg)[2])

RECURSIVE HintsLeadToSolved(_, _)
\* hint_by_depth with limit n and the move it names, again and again from s, end
\* in a solved state: every hint is a move, and every such move is made
HintsLeadToSolved(s, n) ==
    \/ is_solved(s)
    \/ LET h == hint_by_depth(s, n).val
       IN  /\ h # NoExtensions
           /\ ~Raised(move(s, h))
           /\ HintsLeadToSolved(move(s, h), n)

\* C29: when hint_by_depth, with a limit of at least the number of empty cells,
\* names a move on an unsolved grid, move takes it, and hint and move again and
\* again never give 'no possible extensions' and end in a solved grid
C29_HintsSolve ==
    (/\ ret.fn = "hint_by_depth" /\ ~is_solved(ret.arg)
     /\ ret.n >= Cardinality(Empties(ret.arg))
     /\ ret.val # NoExtensions) =>
        HintsLeadToSolved(ret.arg, ret.n)

====
